---------------------------- MODULE Spec2Model ----------------------------
(***************************************************************************)
(* A model of astrbot_plugin_update_manager (src/main.py): the plugin      *)
(* object PluginUpdateManager, its scheduled trigger, its manual command   *)
(* and the update routine _check_and_perform_updates.                      *)
(*                                                                         *)
(* The routine is an asyncio coroutine: it runs without interruption from  *)
(* one suspension point to the next.  Its suspension points are the awaits *)
(* on the host's update_plugin (main.py:135) and, for the command, the two *)
(* yields (main.py:169, 173).  Each action below is one such uninterrupted *)
(* stretch of code.  The host's collaborators (build_plug_list,            *)
(* update_plugin, the directory test) are nondeterministic: every outcome  *)
(* the code distinguishes is drawn with \E.  A raise is a raise of a       *)
(* subclass of Exception, the class the code's handlers name.  Plugin      *)
(* names are strings or None, as build_plug_list produces them.  Logging   *)
(* and the test-mode dump of the inventory (main.py:98-103) complete       *)
(* without raising; the proxy address is handed to update_plugin unchanged *)
(* and is left out; the host iterates the command's generator to its end.  *)
(***************************************************************************)
EXTENDS Naturals, Sequences, FiniteSets

(***************************************************************************)
(* Bounds of the model.                                                    *)
(***************************************************************************)
\* Longest inventory build_plug_list returns when triggers do not overlap.
MaxInv == 3
\* Longest inventory build_plug_list returns when the host lets triggers overlap.
MaxInvOverlap == 2
\* Number of calls of terminate() the host makes.
MaxTerminate == 2

(***************************************************************************)
(* Values.                                                                 *)
(***************************************************************************)
\* Python's None: the value dict.get returns for a missing key.
None == "<None>"
\* config.get("interval_hours", 24): the default for a missing key.
DefaultIntervalHours == 24
\* PluginStatus.NEED_UPDATE, and a status that is not NEED_UPDATE.
NEED_UPDATE == "NEED_UPDATE"
INSTALLED == "INSTALLED"

\* The two triggers of the routine: the scheduler's job and the command.
Triggers == {"sched", "manual"}

\* The configurations (dicts) the host may hand to __init__: "interval_hours"
\* missing, 0 or 1, and "test_mode" missing or True.
Configs ==
    {<<>>, [interval_hours |-> 0], [interval_hours |-> 1],
     [test_mode |-> TRUE], [interval_hours |-> 0, test_mode |-> TRUE],
     [interval_hours |-> 1, test_mode |-> TRUE]}

\* config.get(key, default): the value, or the default when the key is missing.
ConfigGet(cfg, key, default) == IF key \in DOMAIN cfg THEN cfg[key] ELSE default

\* The records (dicts) build_plug_list may return.  Those that need an update
\* carry a name, an empty name or no "name" key; the others carry a status
\* other than NEED_UPDATE or no "status" key.
PluginRecords ==
    {[name |-> "a", status |-> NEED_UPDATE], [name |-> "b", status |-> NEED_UPDATE],
     [name |-> "", status |-> NEED_UPDATE], [status |-> NEED_UPDATE],
     [name |-> "a", status |-> INSTALLED], [name |-> "b", status |-> INSTALLED],
     [name |-> "a"]}

\* The records drawn from when the host lets triggers overlap.
OverlapRecords ==
    {[name |-> "a", status |-> NEED_UPDATE], [name |-> "b", status |-> NEED_UPDATE],
     [name |-> "a", status |-> INSTALLED]}

SeqsUpTo(S, n) == UNION {[1..k -> S] : k \in 0..n}

\* dict.get(key): the value, or None when the key is missing.
Get(p, key) == IF key \in DOMAIN p THEN p[key] ELSE None

\* Python truth of a name: None and "" are false.
Truthy(v) == v # None /\ v # ""

\* A variant of IntervalTruthy: every interval counts as true.
IntervalAlwaysTrue(v) == TRUE

\* Python truth of the interval (main.py:46): 0 is false.
IntervalTruthy(v) == v # 0

(***************************************************************************)
(* Messages _check_and_perform_updates returns, and the acknowledgment.    *)
(* All have one shape: the kind, and the three parts of the final summary. *)
(***************************************************************************)
Msg(k, n, f, s) == [kind |-> k, found |-> n, failed |-> f, succeeded |-> s]
\* main.py:81 "机器人内部依赖功能未加载，无法执行更新。"
MsgDependencyUnavailable == Msg("DependencyUnavailable", <<>>, <<>>, <<>>)
\* main.py:88 "未找到插件目录 {plug_path}，无法执行更新。"
MsgInstallRootNotFound == Msg("InstallRootNotFound", <<>>, <<>>, <<>>)
\* main.py:111 "目前没有发现需要更新的插件。"
MsgNoUpdatesNeeded == Msg("NoUpdatesNeeded", <<>>, <<>>, <<>>)
\* main.py:160 "插件更新流程异常终止: {e}。请检查机器人日志。"
MsgUnexpectedFailure == Msg("UnexpectedFailure", <<>>, <<>>, <<>>)
\* main.py:169 "正在检查并更新所有插件，请稍候..."
MsgWorking == Msg("Working", <<>>, <<>>, <<>>)
\* No message: the routine has not returned.
NoMsg == Msg("<none>", <<>>, <<>>, <<>>)

\* main.py:149-155: the summary lines, the failures when there are any, and
\* the count and list of the successes.
FinalReply(summary, failed, succeeded) ==
    Msg("Summary", summary, failed, succeeded)

(***************************************************************************)
(* State.                                                                  *)
(***************************************************************************)
VARIABLES
    config,         \* the dict the host hands to __init__
    depsLoaded,     \* build_plug_list and PluginStatus were imported (main.py:13-23)
    hostOverlap,    \* the host lets a tick and a command run at the same time
    plug_dir_exists,\* the plugin directory (main.py:85) is an existing directory
    self,           \* the plugin object's attributes; <<>> before __init__
    test_md,        \* the debug file test.md has been written
    termCalls,      \* calls of terminate() so far
    termRaised,     \* calls of terminate() that ended by raising
    shutdownCalls,  \* calls of scheduler.shutdown() so far
    run,            \* per trigger: the frame of its _check_and_perform_updates
    trace,          \* per trigger: what it has done, in order
    yielded         \* per trigger: the messages it has handed to the user

vars == <<config, depsLoaded, hostOverlap, plug_dir_exists, self, test_md, termCalls, termRaised,
          shutdownCalls, run, trace, yielded>>

\* The frame of one call of _check_and_perform_updates: where it stands, its
\* local variables (main.py:92-94, 97, 104, 127) and the message it returned.
Frame(pc, info, need, i, ok, bad, summary, result) ==
    [pc |-> pc, all_plugins_info |-> info, need_update_plugins |-> need,
     idx |-> i, successed_plugins |-> ok, failed_plugins |-> bad,
     update_summary_messages |-> summary, result |-> result]

\* A trigger that is not running.
IdleFrame == Frame("idle", <<>>, <<>>, 0, <<>>, <<>>, <<>>, NoMsg)

\* One entry of a trigger's trace.
Ev(op, name) == [op |-> op, name |-> name]

\* The inventories build_plug_list may return.
Inventories ==
    IF hostOverlap THEN SeqsUpTo(OverlapRecords, MaxInvOverlap)
    ELSE SeqsUpTo(PluginRecords, MaxInv)

(***************************************************************************)
(* PluginUpdateManager.__init__ (main.py:33-61).                           *)
(***************************************************************************)
\* main.py:36: the interval read from the configuration.
IntervalHours(cfg) == ConfigGet(cfg, "interval_hours", DefaultIntervalHours)

\* main.py:48-58: AsyncIOScheduler(), add_job(...), start().
StartedScheduler(hours) ==
    [running |-> TRUE, jobs |-> {[id |-> "scheduled_plugin_update", hours |-> hours]}]

\* The attributes __init__ leaves on the object: scheduler only when the
\* interval is true (main.py:46).
Constructed(cfg) ==
    LET base == [config |-> cfg,
                 interval_hours |-> IntervalHours(cfg),
                 test_mode |-> ConfigGet(cfg, "test_mode", FALSE)]
    IN  IF IntervalTruthy(base.interval_hours)
        THEN [config |-> base.config, interval_hours |-> base.interval_hours,
              test_mode |-> base.test_mode,
              scheduler |-> StartedScheduler(base.interval_hours)]
        ELSE base

Activated == self # <<>>

PluginUpdateManager_init ==
    /\ ~Activated
    /\ self' = Constructed(config)
    /\ UNCHANGED <<config, depsLoaded, hostOverlap, plug_dir_exists, test_md, termCalls, termRaised,
                   shutdownCalls, run, trace, yielded>>

(***************************************************************************)
(* PluginUpdateManager.terminate (main.py:175-181).                        *)
(***************************************************************************)
\* main.py:179: reading self.scheduler raises AttributeError when __init__
\* never set it.
TerminateRaises(obj) == "scheduler" \notin DOMAIN obj

\* A variant of ShouldShutdown: the shutdown is not guarded.
ShouldShutdownAlways(obj) == TRUE

\* main.py:179: the guard of the shutdown.
ShouldShutdown(obj) == obj.scheduler.running

\* AsyncIOScheduler.shutdown(): the scheduler stops running.
Shutdown(sch) == [sch EXCEPT !.running = FALSE]

terminate ==
    /\ Activated
    /\ termCalls < MaxTerminate
    /\ termCalls' = termCalls + 1
    /\ IF TerminateRaises(self)
       THEN /\ termRaised' = termRaised + 1
            /\ UNCHANGED <<self, shutdownCalls>>
       ELSE IF ShouldShutdown(self)
       THEN /\ IF self.scheduler.running
               THEN /\ self' = [self EXCEPT !.scheduler = Shutdown(@)]
                    /\ UNCHANGED termRaised
               ELSE \* SchedulerNotRunningError
                    /\ termRaised' = termRaised + 1
                    /\ UNCHANGED self
            /\ shutdownCalls' = shutdownCalls + 1
       ELSE UNCHANGED <<self, termRaised, shutdownCalls>>
    /\ UNCHANGED <<config, depsLoaded, hostOverlap, plug_dir_exists, test_md, run, trace, yielded>>

(***************************************************************************)
(* PluginUpdateManager._check_and_perform_updates (main.py:70-160).        *)
(***************************************************************************)
\* A variant of NeedUpdatePlugins: every record not marked INSTALLED.
NeedUpdatePluginsNotInstalled(info) ==
    SelectSeq(info, LAMBDA p : Get(p, "status") # INSTALLED)

\* main.py:104-108: the records whose status is NEED_UPDATE, in order.
NeedUpdatePlugins(info) ==
    SelectSeq(info, LAMBDA p : Get(p, "status") = NEED_UPDATE)

\* A variant of NextNamed: a record whose name is false ends the loop (break).
NextNamedBreaks(need, i) ==
    IF i > Len(need) THEN i
    ELSE IF ~Truthy(Get(need[i], "name")) THEN Len(need) + 1
    ELSE i

\* main.py:127-131: the for loop from position i up to its next await: a
\* record whose name is false is logged and skipped (continue).  The
\* position of the next record to update, or Len + 1 when the loop is over.
RECURSIVE NextNamed(_, _)
NextNamed(need, i) ==
    IF i > Len(need) THEN i
    ELSE IF ~Truthy(Get(need[i], "name")) THEN NextNamed(need, i + 1)
    ELSE i

\* main.py:141: the update returned.
OnSuccess(f, name) ==
    [f EXCEPT !.successed_plugins = Append(@, name)]

\* A variant of OnFailure: the name is recorded as a success.
OnFailureAsSuccess(f, name) ==
    [f EXCEPT !.successed_plugins = Append(@, name)]

\* main.py:143-146: the update raised.
OnFailure(f, name) ==
    [f EXCEPT !.failed_plugins = Append(@, name)]

\* The routine returns msg to its caller.
Return(r, f, tr, msg) ==
    /\ run' = [run EXCEPT ![r] = [f EXCEPT !.pc = "returned", !.result = msg]]
    /\ trace' = [trace EXCEPT ![r] = Append(tr, Ev("return", None))]

\* main.py:127-155: the loop resumed at position i: it stops at the next
\* await of update_plugin, or ends and the final message is returned.
Loop(r, f, tr, i) ==
    LET j == NextNamed(f.need_update_plugins, i) IN
    IF j <= Len(f.need_update_plugins)
    THEN /\ run' = [run EXCEPT ![r] = [f EXCEPT !.pc = "awaiting", !.idx = j]]
         /\ trace' = [trace EXCEPT ![r] =
                Append(tr, Ev("update_plugin", Get(f.need_update_plugins[j], "name")))]
    ELSE Return(r, [f EXCEPT !.idx = j], tr,
                FinalReply(f.update_summary_messages, f.failed_plugins,
                           f.successed_plugins))

\* A variant of ExceptOuter: no handler, the exception leaves the routine.
ExceptOuterPropagates(r, f, tr) ==
    /\ run' = [run EXCEPT ![r] = [f EXCEPT !.pc = "raised"]]
    /\ trace' = [trace EXCEPT ![r] = Append(tr, Ev("raise", None))]

\* main.py:157-160: the handler of the outer try: whatever was raised in the
\* try block is logged and the routine returns the failure message.
ExceptOuter(r, f, tr) ==
    Return(r, f, tr, MsgUnexpectedFailure)

\* main.py:96-124: the try block from build_plug_list to the loop.
\* build_plug_list returns an inventory or raises.  In test mode the
\* inventory is dumped to test.md (main.py:98-103; the write succeeds).
TryBlock(r, f, tr) ==
    \/ /\ ExceptOuter(r, f, Append(tr, Ev("build_plug_list", "raised")))
       /\ UNCHANGED test_md
    \/ \E info \in Inventories :
          LET called == Append(tr, Ev("build_plug_list", "returned"))
              need == NeedUpdatePlugins(info)
              g == [f EXCEPT !.all_plugins_info = info, !.need_update_plugins = need]
          IN  /\ test_md' = (test_md \/ self.test_mode)
              /\ IF need = <<>>
                 THEN Return(r, g, called, MsgNoUpdatesNeeded)
                 ELSE Loop(r, [g EXCEPT !.update_summary_messages = <<Len(need)>>],
                           called, 1)

\* main.py:75-80: all([build_plug_list, PluginStatus]).
DepsAvailable == depsLoaded

\* A variant of IsDir: the directory is taken to exist.
IsDirAssumed == TRUE

\* main.py:87: plug_path.is_dir().
IsDir == plug_dir_exists

\* main.py:74-94: the routine from its entry: the dependency check, the
\* directory check, then the try block.
CheckAndPerformUpdates(r, tr) ==
    LET entered == Append(tr, Ev("enter", None))
        f == [IdleFrame EXCEPT !.pc = "running"]
    IN  IF ~DepsAvailable
        THEN Return(r, f, entered, MsgDependencyUnavailable) /\ UNCHANGED test_md
        ELSE IF ~IsDir
        THEN Return(r, f, entered, MsgInstallRootNotFound) /\ UNCHANGED test_md
        ELSE TryBlock(r, f, entered)

\* A variant of UpdatePluginReturns: the success list is shared by the
\* triggers (an attribute of the plugin object instead of a local).
UpdatePluginReturnsShared(r) ==
    /\ run[r].pc = "awaiting"
    /\ LET f == run[r]
           name == Get(f.need_update_plugins[f.idx], "name")
           j == NextNamed(f.need_update_plugins, f.idx + 1)
       IN  /\ run' = [q \in Triggers |->
                        IF q = r
                        THEN [OnSuccess(f, name) EXCEPT
                                 !.pc = IF j <= Len(f.need_update_plugins)
                                        THEN "awaiting" ELSE "returned",
                                 !.idx = j,
                                 !.result = IF j <= Len(f.need_update_plugins) THEN NoMsg
                                            ELSE FinalReply(f.update_summary_messages,
                                                            f.failed_plugins,
                                                            Append(f.successed_plugins, name))]
                        ELSE IF run[q].pc = "awaiting" THEN OnSuccess(run[q], name)
                        ELSE run[q]]
           /\ trace' = [trace EXCEPT ![r] =
                  Append(Append(@, Ev("returned", name)),
                         IF j <= Len(f.need_update_plugins)
                         THEN Ev("update_plugin", Get(f.need_update_plugins[j], "name"))
                         ELSE Ev("return", None))]
    /\ UNCHANGED <<config, depsLoaded, hostOverlap, plug_dir_exists, self, test_md,
                   termCalls, termRaised, shutdownCalls, yielded>>

\* main.py:135-141: the awaited update_plugin returns.
UpdatePluginReturns(r) ==
    /\ run[r].pc = "awaiting"
    /\ LET f == run[r]
           name == Get(f.need_update_plugins[f.idx], "name")
       IN  Loop(r, OnSuccess(f, name), Append(trace[r], Ev("returned", name)),
                f.idx + 1)
    /\ UNCHANGED <<config, depsLoaded, hostOverlap, plug_dir_exists, self, test_md, termCalls,
                   termRaised, shutdownCalls, yielded>>

\* main.py:135, 143-146: the awaited update_plugin raises.
UpdatePluginRaises(r) ==
    /\ run[r].pc = "awaiting"
    /\ LET f == run[r]
           name == Get(f.need_update_plugins[f.idx], "name")
       IN  Loop(r, OnFailure(f, name), Append(trace[r], Ev("raised", name)),
                f.idx + 1)
    /\ UNCHANGED <<config, depsLoaded, hostOverlap, plug_dir_exists, self, test_md, termCalls,
                   termRaised, shutdownCalls, yielded>>

(***************************************************************************)
(* The triggers.                                                           *)
(***************************************************************************)
\* A trigger may start: always when the host overlaps triggers, otherwise
\* only when no other trigger is running.
MayStart(r) ==
    /\ run[r].pc = "idle"
    /\ hostOverlap \/ \A q \in Triggers : run[q].pc = "idle"

\* The scheduler's job is due: the scheduler exists, runs and holds the job.
JobDue ==
    /\ "scheduler" \in DOMAIN self
    /\ self.scheduler.running
    /\ self.scheduler.jobs # {}

\* _scheduled_update_check (main.py:63-68) up to its first suspension.
scheduled_update_check ==
    /\ Activated
    /\ JobDue
    /\ MayStart("sched")
    /\ CheckAndPerformUpdates("sched", <<>>)
    /\ UNCHANGED <<config, depsLoaded, hostOverlap, plug_dir_exists, self, termCalls, termRaised,
                   shutdownCalls, yielded>>

\* _scheduled_update_check (main.py:68): the routine has returned; its
\* message is dropped and the job's run is over.
scheduled_update_check_end ==
    /\ run["sched"].pc = "returned"
    /\ run' = [run EXCEPT !["sched"] = IdleFrame]
    /\ trace' = [trace EXCEPT !["sched"] = <<>>]
    /\ UNCHANGED <<config, depsLoaded, hostOverlap, plug_dir_exists, self, test_md, termCalls,
                   termRaised, shutdownCalls, yielded>>

\* A variant of update_all_plugins_command: no acknowledgment is yielded.
command_without_ack ==
    /\ Activated
    /\ MayStart("manual")
    /\ run' = [run EXCEPT !["manual"] = [IdleFrame EXCEPT !.pc = "acked"]]
    /\ UNCHANGED <<config, depsLoaded, hostOverlap, plug_dir_exists, self, test_md,
                   termCalls, termRaised, shutdownCalls, trace, yielded>>

\* update_all_plugins_command (main.py:164-169) up to its first yield: the
\* acknowledgment.
update_all_plugins_command ==
    /\ Activated
    /\ MayStart("manual")
    /\ run' = [run EXCEPT !["manual"] = [IdleFrame EXCEPT !.pc = "acked"]]
    /\ trace' = [trace EXCEPT !["manual"] = <<Ev("yield", "Working")>>]
    /\ yielded' = [yielded EXCEPT !["manual"] = <<MsgWorking>>]
    /\ UNCHANGED <<config, depsLoaded, hostOverlap, plug_dir_exists, self, test_md, termCalls,
                   termRaised, shutdownCalls>>

\* update_all_plugins_command (main.py:172): resumed after the first yield,
\* it enters the routine.
command_resume ==
    /\ run["manual"].pc = "acked"
    /\ CheckAndPerformUpdates("manual", trace["manual"])
    /\ UNCHANGED <<config, depsLoaded, hostOverlap, plug_dir_exists, self, termCalls, termRaised,
                   shutdownCalls, yielded>>

\* update_all_plugins_command (main.py:173): the routine has returned and
\* its message is yielded.
command_reply ==
    /\ run["manual"].pc = "returned"
    /\ run' = [run EXCEPT !["manual"].pc = "replied"]
    /\ trace' = [trace EXCEPT !["manual"] = Append(@, Ev("yield", "result"))]
    /\ yielded' = [yielded EXCEPT !["manual"] = Append(@, run["manual"].result)]
    /\ UNCHANGED <<config, depsLoaded, hostOverlap, plug_dir_exists, self, test_md, termCalls,
                   termRaised, shutdownCalls>>

\* update_all_plugins_command: resumed after the second yield, the generator
\* is exhausted.
command_end ==
    /\ run["manual"].pc = "replied"
    /\ run' = [run EXCEPT !["manual"] = IdleFrame]
    /\ trace' = [trace EXCEPT !["manual"] = <<>>]
    /\ yielded' = [yielded EXCEPT !["manual"] = <<>>]
    /\ UNCHANGED <<config, depsLoaded, hostOverlap, plug_dir_exists, self, test_md, termCalls,
                   termRaised, shutdownCalls>>

(***************************************************************************)
(* The specifications.                                                     *)
(***************************************************************************)
InitCommon ==
    /\ config \in Configs
    /\ depsLoaded \in BOOLEAN
    /\ plug_dir_exists \in BOOLEAN
    /\ self = <<>>
    /\ test_md = FALSE
    /\ termCalls = 0
    /\ termRaised = 0
    /\ shutdownCalls = 0
    /\ run = [r \in Triggers |-> IdleFrame]
    /\ trace = [r \in Triggers |-> <<>>]
    /\ yielded = [r \in Triggers |-> <<>>]

\* Triggers run one at a time.
Init == InitCommon /\ hostOverlap = FALSE

\* The host lets the scheduled job and the command overlap: a configuration
\* whose interval schedules the job (main.py:46), debugging off.
InitOverlap ==
    /\ InitCommon
    /\ "interval_hours" \in DOMAIN config
    /\ IntervalTruthy(IntervalHours(config))
    /\ ~ConfigGet(config, "test_mode", FALSE)
    /\ hostOverlap = TRUE

Next ==
    \/ PluginUpdateManager_init
    \/ terminate
    \/ scheduled_update_check
    \/ scheduled_update_check_end
    \/ update_all_plugins_command
    \/ command_resume
    \/ command_reply
    \/ command_end
    \/ \E r \in Triggers : UpdatePluginReturns(r)
    \/ \E r \in Triggers : UpdatePluginRaises(r)

Spec == Init /\ [][Next]_vars

SpecOverlap == InitOverlap /\ [][Next]_vars

(***************************************************************************)
(* What the properties read off a trigger's frame and trace.               *)
(***************************************************************************)
\* The names carried by the entries of tr whose op is in ops, in order.
NamesOf(tr, ops) ==
    LET sel == SelectSeq(tr, LAMBDA e : e.op \in ops)
    IN  [i \in 1..Len(sel) |-> sel[i].name]

\* The names update_plugin was called with, in call order.
ApplierCalls(r) == NamesOf(trace[r], {"update_plugin"})

\* The names whose update_plugin call raised.
RaisedNames(r) ==
    {trace[r][i].name : i \in {j \in 1..Len(trace[r]) : trace[r][j].op = "raised"}}

HasEvent(r, e) == \E i \in 1..Len(trace[r]) : trace[r][i] = e

\* build_plug_list was called and returned an inventory; it raised; it was called.
ProviderReturned(r) == HasEvent(r, Ev("build_plug_list", "returned"))
ProviderRaised(r) == HasEvent(r, Ev("build_plug_list", "raised"))
ProviderCalled(r) == ProviderReturned(r) \/ ProviderRaised(r)

\* The routine of trigger r has returned to its caller.
Returned(r) == run[r].pc \in {"returned", "replied"}

\* A record needs an update; it carries a non-empty name.
IsNeedUpdate(p) == "status" \in DOMAIN p /\ p.status = NEED_UPDATE
IsNamed(p) == "name" \in DOMAIN p /\ p.name # ""

\* The names of the records of info that need an update and carry a
\* non-empty name, in inventory order.
PlanNames(info) ==
    LET sel == SelectSeq(info, LAMBDA p : IsNeedUpdate(p) /\ IsNamed(p))
    IN  [i \in 1..Len(sel) |-> sel[i].name]

\* The number of records of info that need an update but carry no name.
Nameless(info) ==
    Cardinality({i \in 1..Len(info) : IsNeedUpdate(info[i]) /\ ~IsNamed(info[i])})

NeedCount(info) == Cardinality({i \in 1..Len(info) : IsNeedUpdate(info[i])})

IsPrefix(s, t) == Len(s) <= Len(t) /\ \A i \in 1..Len(s) : s[i] = t[i]

NoDuplicates(s) == \A i, j \in 1..Len(s) : s[i] = s[j] => i = j

Range(s) == {s[i] : i \in 1..Len(s)}

(***************************************************************************)
(* C1: in one run over an inventory returned by build_plug_list, the calls *)
(* of update_plugin made so far are a prefix of the names of the           *)
(* NEED_UPDATE records with a non-empty name, in inventory order, and once *)
(* the run has returned they are exactly that list, each record called     *)
(* once, whatever calls returned or raised; a NEED_UPDATE record without a *)
(* name causes no call and does not stop the records after it.             *)
(***************************************************************************)
C1_CallsAreThePlan ==
    \A r \in Triggers :
        ProviderReturned(r) =>
            /\ IsPrefix(ApplierCalls(r), PlanNames(run[r].all_plugins_info))
            /\ Returned(r) => ApplierCalls(r) = PlanNames(run[r].all_plugins_info)

\* A run has returned in which a nameless NEED_UPDATE record came first, the
\* call before the last one raised and the record after both was still called.
C1_Witness ==
    /\ Returned("manual")
    /\ run["manual"].all_plugins_info =
          <<[status |-> NEED_UPDATE], [name |-> "b", status |-> NEED_UPDATE],
            [name |-> "a", status |-> NEED_UPDATE]>>
    /\ ApplierCalls("manual") = <<"b", "a">>
    /\ run["manual"].failed_plugins = <<"b", "a">>

(***************************************************************************)
(* C2: when a run over an inventory whose plan names are unique composes   *)
(* its message, failed_plugins is exactly the plan names whose update      *)
(* raised, in inventory order, successed_plugins is exactly the other plan *)
(* names, in inventory order, the two are disjoint, and their lengths add  *)
(* up to the number of NEED_UPDATE records minus the nameless ones.        *)
(***************************************************************************)
C2_OutcomePartition ==
    \A r \in Triggers :
        LET f == run[r]
            plan == PlanNames(f.all_plugins_info)
            bad == RaisedNames(r)
        IN  (Returned(r) /\ f.result.kind = "Summary" /\ NoDuplicates(plan)) =>
                /\ f.failed_plugins = SelectSeq(plan, LAMBDA n : n \in bad)
                /\ f.successed_plugins = SelectSeq(plan, LAMBDA n : n \notin bad)
                /\ Range(f.failed_plugins) \cap Range(f.successed_plugins) = {}
                /\ Range(f.failed_plugins) \cup Range(f.successed_plugins)
                      \subseteq Range(plan)
                /\ Len(f.successed_plugins) + Len(f.failed_plugins)
                      = NeedCount(f.all_plugins_info) - Nameless(f.all_plugins_info)
                /\ f.result = FinalReply(<<NeedCount(f.all_plugins_info)>>,
                                         f.failed_plugins, f.successed_plugins)

\* The inventory [a NEED_UPDATE, b INSTALLED, b NEED_UPDATE], the update of b
\* raising: the run has composed its message.
C2_Witness ==
    /\ Returned("sched")
    /\ run["sched"].all_plugins_info =
          <<[name |-> "a", status |-> NEED_UPDATE], [name |-> "b", status |-> INSTALLED],
            [name |-> "b", status |-> NEED_UPDATE]>>
    /\ run["sched"].successed_plugins = <<"a">>
    /\ run["sched"].failed_plugins = <<"b">>
    /\ run["sched"].result.kind = "Summary"

(***************************************************************************)
(* C3: a run over an inventory with no NEED_UPDATE record, the empty one   *)
(* included, returns the "no updates needed" message, leaves               *)
(* successed_plugins and failed_plugins empty and never calls              *)
(* update_plugin.                                                          *)
(***************************************************************************)
C3_NothingToUpdate ==
    \A r \in Triggers :
        (ProviderReturned(r) /\ NeedCount(run[r].all_plugins_info) = 0) =>
            /\ Returned(r)
            /\ run[r].result = MsgNoUpdatesNeeded
            /\ run[r].successed_plugins = <<>>
            /\ run[r].failed_plugins = <<>>
            /\ ApplierCalls(r) = <<>>

\* A run over two records, one INSTALLED and one without status, has returned.
C3_Witness ==
    /\ Returned("manual")
    /\ run["manual"].all_plugins_info =
          <<[name |-> "a", status |-> INSTALLED], [name |-> "a"]>>
    /\ run["manual"].result = MsgNoUpdatesNeeded

(***************************************************************************)
(* C4: a run never ends by propagating an exception: outside the stretch   *)
(* that enters it, a run stands at an await of update_plugin or has        *)
(* returned one of its messages, whatever build_plug_list and update_plugin*)
(* did; when build_plug_list raised, the run has returned the              *)
(* unexpected-failure message and has made no update_plugin call.          *)
(***************************************************************************)
C4_AlwaysReturns ==
    \A r \in Triggers :
        /\ run[r].pc \in {"idle", "acked", "awaiting", "returned", "replied"}
        /\ HasEvent(r, Ev("enter", None)) => run[r].pc \in {"awaiting", "returned", "replied"}
        /\ Returned(r) <=> HasEvent(r, Ev("return", None))
        /\ Returned(r) =>
              run[r].result.kind \in {"DependencyUnavailable", "InstallRootNotFound",
                                      "NoUpdatesNeeded", "UnexpectedFailure", "Summary"}
        /\ ProviderRaised(r) =>
              /\ Returned(r)
              /\ run[r].result = MsgUnexpectedFailure
              /\ ApplierCalls(r) = <<>>

\* build_plug_list raised in the command's run, and the command has replied.
C4_Witness ==
    /\ ProviderRaised("manual")
    /\ run["manual"].pc = "replied"

(***************************************************************************)
(* C5 as claimed: whenever the install root is not an existing directory,  *)
(* dependencies loaded or not, the run returns the message that states the *)
(* missing path and calls neither build_plug_list nor update_plugin.       *)
(***************************************************************************)
C5_AsClaimed ==
    \A r \in Triggers :
        (Returned(r) /\ ~plug_dir_exists) =>
            /\ run[r].result = MsgInstallRootNotFound
            /\ ~ProviderCalled(r)
            /\ ApplierCalls(r) = <<>>

(***************************************************************************)
(* C5 amended: whenever the install root is not an existing directory, the *)
(* run calls neither build_plug_list nor update_plugin, and it returns the *)
(* message that states the missing path when the dependencies are loaded,  *)
(* the dependency-unavailable message when they are not.                   *)
(***************************************************************************)
C5_MissingRoot ==
    \A r \in Triggers :
        (HasEvent(r, Ev("enter", None)) /\ ~plug_dir_exists) =>
            /\ Returned(r)
            /\ depsLoaded => run[r].result = MsgInstallRootNotFound
            /\ ~depsLoaded => run[r].result = MsgDependencyUnavailable
            /\ ~ProviderCalled(r)
            /\ ApplierCalls(r) = <<>>

\* A run with the dependencies loaded and the directory missing has returned.
C5_Witness ==
    /\ Returned("manual")
    /\ ~plug_dir_exists
    /\ depsLoaded
    /\ run["manual"].result = MsgInstallRootNotFound

(***************************************************************************)
(* C6: for a plugin whose scheduler was started by __init__, terminate is  *)
(* idempotent: no call of terminate raises, however many are made, the     *)
(* scheduler is shut down at most once, and from the first call on the     *)
(* scheduler is not running.                                               *)
(***************************************************************************)
C6_TerminateIdempotent ==
    (Activated /\ "scheduler" \in DOMAIN self) =>
        /\ termRaised = 0
        /\ shutdownCalls <= 1
        /\ termCalls >= 1 => (~self.scheduler.running /\ shutdownCalls = 1)
        /\ termCalls = 0 => self.scheduler.running

\* terminate has been called twice on a plugin whose scheduler was started.
C6_Witness ==
    /\ Activated
    /\ "scheduler" \in DOMAIN self
    /\ termCalls >= 2
    /\ shutdownCalls = 1

(***************************************************************************)
(* C7 as claimed: scheduling is enabled exactly when an interval is        *)
(* configured and non-zero: with the interval zero or absent __init__      *)
(* creates no scheduler and no scheduled update cycle ever runs; with a    *)
(* non-zero interval __init__ starts a scheduler holding the job.          *)
(***************************************************************************)
C7_AsClaimed ==
    /\ ("interval_hours" \notin DOMAIN config \/ config.interval_hours = 0) =>
          /\ "scheduler" \notin DOMAIN self
          /\ run["sched"].pc = "idle"
    /\ (Activated /\ "interval_hours" \in DOMAIN config /\ config.interval_hours # 0) =>
          /\ "scheduler" \in DOMAIN self
          /\ self.scheduler.jobs # {}

(***************************************************************************)
(* C7 amended: with the interval configured as zero __init__ creates no    *)
(* scheduler and no scheduled update cycle ever runs; with the interval    *)
(* absent __init__ takes 24 hours, and with it absent or non-zero __init__ *)
(* starts a scheduler holding one job of that interval, which runs until   *)
(* it is shut down; a scheduled cycle runs only on a running or once       *)
(* running scheduler.                                                      *)
(***************************************************************************)
C7_Scheduling ==
    LET configured == "interval_hours" \in DOMAIN config
        zero == configured /\ config.interval_hours = 0
        hours == IF configured THEN config.interval_hours ELSE 24
    IN  /\ (~Activated \/ zero) =>
              /\ "scheduler" \notin DOMAIN self
              /\ run["sched"].pc = "idle"
        /\ (Activated /\ ~zero) =>
              /\ "scheduler" \in DOMAIN self
              /\ self.scheduler.jobs = {[id |-> "scheduled_plugin_update", hours |-> hours]}
              /\ shutdownCalls = 0 => self.scheduler.running

\* With no interval configured a scheduled update cycle has run and returned.
C7_Witness ==
    /\ "interval_hours" \notin DOMAIN config
    /\ Returned("sched")
    /\ self.scheduler.running

(***************************************************************************)
(* C8: terminate completes without raising in every configuration          *)
(* reachable from __init__, the one with the interval zero included.       *)
(***************************************************************************)
C8_TerminateNeverRaises == termRaised = 0

(***************************************************************************)
(* C9: when the scheduled run and the command's run overlap, each run has  *)
(* at most one update_plugin call in flight, starts a call only after its  *)
(* previous one returned or raised, and is computed from its own inventory *)
(* and its own outcomes only: its successes are exactly the names whose    *)
(* call returned in this run, its failures those whose call raised in this *)
(* run, its calls follow its own inventory and its message reports them.   *)
(***************************************************************************)
C9_RunsIsolated ==
    \A r \in Triggers :
        LET f == run[r]
            ev == SelectSeq(trace[r],
                            LAMBDA e : e.op \in {"update_plugin", "returned", "raised"})
        IN  /\ \A i \in 1..Len(ev) :
                  IF i % 2 = 1 THEN ev[i].op = "update_plugin"
                  ELSE ev[i].op \in {"returned", "raised"} /\ ev[i].name = ev[i - 1].name
            /\ (f.pc = "awaiting") <=> (Len(ev) % 2 = 1)
            /\ f.successed_plugins = NamesOf(trace[r], {"returned"})
            /\ f.failed_plugins = NamesOf(trace[r], {"raised"})
            /\ ProviderReturned(r) =>
                  /\ IsPrefix(ApplierCalls(r), PlanNames(f.all_plugins_info))
                  /\ Returned(r) => ApplierCalls(r) = PlanNames(f.all_plugins_info)
            /\ (Returned(r) /\ f.result.kind = "Summary") =>
                  f.result = FinalReply(<<NeedCount(f.all_plugins_info)>>,
                                        NamesOf(trace[r], {"raised"}),
                                        NamesOf(trace[r], {"returned"}))

\* Both runs are suspended on update_plugin, each on its second call, over
\* different inventories and with different outcomes behind them.
C9_Witness ==
    /\ run["sched"].pc = "awaiting"
    /\ run["manual"].pc = "awaiting"
    /\ run["sched"].all_plugins_info # run["manual"].all_plugins_info
    /\ run["sched"].successed_plugins = <<"a">>
    /\ run["manual"].failed_plugins = <<"b">>
    /\ run["manual"].successed_plugins = <<>>

(***************************************************************************)
(* C10: a command yields exactly two messages: the acknowledgment, before  *)
(* anything else of the command (no build_plug_list and no update_plugin   *)
(* call precedes it), then the message its one run returned, after every   *)
(* update_plugin call of the run has completed; a scheduled tick makes one *)
(* run and yields nothing.                                                 *)
(***************************************************************************)
C10_CommandMessages ==
    LET tr == trace["manual"]
        pc == run["manual"].pc
        Count(t, e) == Cardinality({i \in 1..Len(t) : t[i] = e})
    IN  /\ yielded["sched"] = <<>>
        /\ \A i \in 1..Len(trace["sched"]) : trace["sched"][i].op # "yield"
        /\ Returned("sched") => Count(trace["sched"], Ev("enter", None)) = 1
        /\ pc = "idle" => yielded["manual"] = <<>>
        /\ pc = "acked" => tr = <<Ev("yield", "Working")>>
        /\ pc \in {"acked", "awaiting", "returned"} =>
              /\ yielded["manual"] = <<MsgWorking>>
              /\ tr[1] = Ev("yield", "Working")
              /\ Count(tr, Ev("yield", "result")) = 0
        /\ pc = "replied" =>
              /\ yielded["manual"] = <<MsgWorking, run["manual"].result>>
              /\ run["manual"].result # NoMsg
              /\ tr[1] = Ev("yield", "Working")
              /\ tr[Len(tr)] = Ev("yield", "result")
              /\ Count(tr, Ev("yield", "Working")) = 1
              /\ Count(tr, Ev("yield", "result")) = 1
              /\ Count(tr, Ev("enter", None)) = 1
              /\ Count(tr, Ev("return", None)) = 1
              /\ Len(ApplierCalls("manual"))
                    = Len(NamesOf(tr, {"returned", "raised"}))

\* A command whose run made two update_plugin calls has yielded its result.
C10_Witness ==
    /\ run["manual"].pc = "replied"
    /\ Len(ApplierCalls("manual")) = 2
    /\ Len(yielded["manual"]) = 2

=============================================================================
